---------------------------- MODULE Spec2Model ----------------------------
(***************************************************************************)
(* Blocking kernel channels (IPython/kernel/blocking/channels.py).         *)
(*                                                                         *)
(* One channel object of one of the three concrete classes is driven by a  *)
(* single-threaded client; the kernel enqueues messages on the channel's   *)
(* socket concurrently, and time passes while the client waits in a poll.  *)
(* Strings the code formats or parses (the address, protocol_version) are  *)
(* sequences of one-character strings.  Python's None is the empty         *)
(* sequence and a present value v is <<v>>.                                *)
(*                                                                         *)
(* The module's two validators are functions of their argument, applied    *)
(* in ValidateSpec to arguments drawn in its initial states.  The blocking *)
(* heartbeat channel has its own state and steps (HBSpec).  HistSpec runs  *)
(* the shell channel with the history of its messages kept.                *)
(***************************************************************************)
EXTENDS Integers, Sequences, FiniteSets, TLC

(* ------------------------------ bounds --------------------------------- *)

\* Most frames pending on the socket, plus messages held by a running drain.
MaxQueue == 2
\* Most sockets the socket factories create in one behaviour.
MaxSockets == 2
\* Largest finite timeout, in seconds, handed to get_msg.
MaxTimeout == 1
\* Milliseconds that pass in one step of the clock.
TickMs == 500
\* Most elements of a list, and most items of a dict, handed to a validator.
MaxLen == 2
\* Most messages the kernel sends in a behaviour whose history is kept.
MaxArrivals == 2

(* ------------------------------ strings -------------------------------- *)

None == <<>>

Some(v) == <<v>>

DigitChars == <<"0", "1", "2", "3", "4", "5", "6", "7", "8", "9">>

IsDigit(c) == \E i \in 1..10 : DigitChars[i] = c

DigitVal(c) == (CHOOSE i \in 1..10 : DigitChars[i] = c) - 1

\* "%i" % n for a natural number n: its decimal digits, most significant first.
RECURSIVE FormatInt(_)
FormatInt(n) ==
    IF n < 10 THEN <<DigitChars[n + 1]>>
    ELSE FormatInt(n \div 10) \o <<DigitChars[(n % 10) + 1]>>

\* int(s) for a non-empty sequence of decimal digits.
RECURSIVE ParseIntFrom(_, _)
ParseIntFrom(s, accum) ==
    IF s = <<>> THEN accum
    ELSE ParseIntFrom(Tail(s), accum * 10 + DigitVal(Head(s)))

ParseInt(s) == ParseIntFrom(s, 0)

\* s.split(sep)[0]: the characters of s before the first sep (all of s if none).
RECURSIVE SplitFirst(_, _)
SplitFirst(s, sep) ==
    IF s = <<>> \/ Head(s) = sep THEN <<>>
    ELSE <<Head(s)>> \o SplitFirst(Tail(s), sep)

TcpScheme == <<"t", "c", "p", ":", "/", "/">>

\* A formatting that drops the separator between host and port.
FormatAddressNoColon(host, port) == TcpScheme \o host \o FormatInt(port)

\* "tcp://%s:%i" % (host, port)
FormatAddress(host, port) == TcpScheme \o host \o <<":">> \o FormatInt(port)

(* ------------------------- construction inputs ------------------------- *)

Classes == {"shell", "iopub", "stdin"}

TupleArg(h, p) == [isTuple |-> TRUE, host |-> h, port |-> p, url |-> <<>>]

UrlArg(u) == [isTuple |-> FALSE, host |-> <<>>, port |-> 0, url |-> u]

\* The address arguments tried: (host, port) pairs and pre-formed URLs.
AddressArgs ==
    {TupleArg(<<"a">>, 0), TupleArg(<<"b", ".", "c">>, 0),
     TupleArg(<<"a">>, 7), TupleArg(<<"b", ".", "c">>, 80),
     UrlArg(TcpScheme \o <<"a", ":", "0">>)}

\* The address of the channels whose address does not matter.
SomeAddress == TupleArg(<<"b", ".", "c">>, 80)

\* The timeout arguments of get_msg: None, or a number of seconds.
TimeoutArgs == {None} \cup {Some(t) : t \in 0..MaxTimeout}

(* ------------------------------ messages ------------------------------- *)

major_protocol_version == 5

KernelInfoReply(pv) ==
    [msg_type |-> "kernel_info_reply", content |-> [protocol_version |-> pv]]

StatusMsg == [msg_type |-> "status", content |-> [execution_state |-> <<"i">>]]

ProtocolVersions == {<<"4", ".", "1">>, <<"5", ".", "0">>, <<"1", "2", ".", "0">>}

Messages == {KernelInfoReply(pv) : pv \in ProtocolVersions} \cup {StatusMsg}

DELIM == "<IDS|MSG>"

\* The identity frames the kernel puts before a message.
Idents(m) == IF m.msg_type = "status" THEN <<"topic">> ELSE <<>>

\* The multipart frames of a message on the wire.
Wire(m) == Idents(m) \o <<DELIM, m>>

\* session.feed_identities: the frames before the delimiter, and those after it.
RECURSIVE feed_identities(_)
feed_identities(frames) ==
    IF Head(frames) = DELIM THEN <<<<>>, Tail(frames)>>
    ELSE LET rest == feed_identities(Tail(frames))
         IN  <<<<Head(frames)>> \o rest[1], rest[2]>>

\* session.deserialize: the message the frames after the delimiter carry.
deserialize(smsg) == smsg[1]


(* ------------------------------- state --------------------------------- *)

VARIABLES
    chan,           \* "new" before __init__, then "ok", or "failed" if it raised
    cls,            \* the concrete class of the channel
    arg,            \* the address argument __init__ was given
    _address,       \* self._address
    socket,         \* self.socket: 0 for None, else an index into socks
    socks,          \* every socket a factory has returned, in creation order
    pending,        \* the frames ready on the socket self.socket holds
    adapt_version,  \* self.session.adapt_version (0: never adapted)
    pc,             \* where the client thread is: "idle", "poll", "get_msgs"
    call,           \* the call in progress, or the last one made
    ret,            \* how that call ended
    msgs,           \* get_msgs' local list
    remaining,      \* what is left of the timeout of the poll in progress
    ghost,          \* what a running or finished get_msgs saw (history only)
    hist,           \* the messages that arrived, were received and returned
    hb,             \* the heartbeat channel's fields
    hbcall,         \* the last thing that happened on the heartbeat channel
    lst,            \* the argument of validate_string_list
    dct,            \* the argument of validate_string_dict
    outcome         \* the last validator called and how it ended

\* The message channel and its session, client and kernel.
channelVars == <<chan, cls, arg, _address, socket, socks, pending,
                 adapt_version, pc, call, ret, msgs, remaining, ghost, hist>>

\* The heartbeat channel, which shares no state with a message channel.
heartbeatVars == <<hb, hbcall>>

\* The validators are module-level functions of their argument alone.
validatorVars == <<lst, dct, outcome>>

vars == <<channelVars, heartbeatVars, validatorVars>>

NoSocket == 0

NoGhost == [snap |-> <<>>, follows |-> FALSE, quiet |-> FALSE]

Call(op, block, timeout, poll) ==
    [op |-> op, block |-> block, timeout |-> timeout, poll |-> poll]

Plain(op) == Call(op, FALSE, None, None)

\* How a call ended: the exception it raised or "ok", and what it returned,
\* by type: messages in val, booleans in flags, a string in text.
Result(kind, val, flags, text) ==
    [kind |-> kind, val |-> val, flags |-> flags, text |-> text]

Ret(kind, val) == Result(kind, val, <<>>, <<>>)

RetFlags(flags) == Result("ok", <<>>, flags, <<>>)

RetText(text) == Result("ok", <<>>, <<>>, text)

(* ------------------------------ history -------------------------------- *)

\* The history of a channel: the messages the kernel put on the socket the
\* channel holds (arrived) and those the client's calls returned from it
\* (returned), both since that socket was made; every message _recv has
\* produced since construction (received); and the number of arrivals (n).
\* It is kept when on, which the specifications that read it choose.
History(on) ==
    [on |-> on, n |-> 0, arrived |-> <<>>, returned |-> <<>>,
     received |-> <<>>]

\* The kernel's message m arrived.
HistArrive(h, m) ==
    IF h.on THEN [h EXCEPT !.n = @ + 1, !.arrived = Append(@, m)] ELSE h

\* _recv produced m.
HistRecv(h, m) ==
    IF h.on THEN [h EXCEPT !.received = Append(@, m)] ELSE h

\* A call returned the messages ms to the client.
HistReturn(h, ms) ==
    IF h.on THEN [h EXCEPT !.returned = @ \o ms] ELSE h

\* The channel's slot changed hands: the history of its socket starts anew.
HistSocket(h) ==
    IF h.on THEN [h EXCEPT !.arrived = <<>>, !.returned = <<>>] ELSE h

(* --------------------------- Python values ----------------------------- *)

\* A scalar by its type and its repr.
PyStr(s) == [type |-> "str", repr |-> s]

PyInt(s) == [type |-> "int", repr |-> s]

PyNone == [type |-> "NoneType", repr |-> "None"]

Scalars == {PyStr("a"), PyStr("b"), PyInt("2"), PyNone}

\* A value by its type and what iterating over it yields.
PyValue(type, items) == [type |-> type, items |-> items]

SeqsUpTo(S, n) == UNION {[1..k -> S] : k \in 0..n}

\* The arguments of validate_string_list: lists and tuples of scalars, a
\* str (iterating yields its characters), a dict (its keys) and None.
ListArgs ==
    {PyValue(t, items) : t \in {"list", "tuple"},
                         items \in SeqsUpTo(Scalars, MaxLen)}
    \cup {PyValue("str", <<PyStr("a"), PyStr("b")>>),
          PyValue("dict", <<PyStr("a")>>),
          PyValue("NoneType", <<>>)}

\* The arguments of validate_string_dict: dicts, each the sequence of its
\* (key, value) items in iteration order; the keys of a dict are distinct.
DictArgs ==
    {items \in SeqsUpTo(Scalars \X Scalars, MaxLen) :
        \A i, j \in 1..Len(items) : i # j => items[i][1] # items[j][1]}

\* No validator has been called.
NoOutcome == [fn |-> "none", raised |-> "none"]

(* ----------------------- the heartbeat channel ------------------------- *)

\* BlockingHBChannel.time_to_dead, in seconds.
time_to_dead == 1

\* A heartbeat channel after construction: no socket, not running, paused.
\* waited is the time since the last ping was sent, in milliseconds.
HBConstructed ==
    [socket |-> NoSocket, _running |-> FALSE, _pause |-> TRUE,
     _beating |-> FALSE, time_to_dead |-> time_to_dead, waited |-> 0]

\* What happened on the heartbeat channel: the method, who called it (the
\* client or the channel's own run loop), call_handlers' argument, the end.
HBCall(op, by, since, kind) ==
    [op |-> op, by |-> by, since |-> since, kind |-> kind]

NoHBCall == HBCall("none", "none", 0, "pending")

(* ------------------------------- Init ---------------------------------- *)

\* Everything but the message channel's own state.
InitBeside(on) ==
    /\ hist = History(on)
    /\ hb = HBConstructed
    /\ hbcall = NoHBCall

\* No validator has been called; the arguments are there.
InitValidators(l, d) ==
    /\ lst = l
    /\ dct = d
    /\ outcome = NoOutcome

InitChannel ==
    /\ chan = "new"
    /\ cls = "none"
    /\ arg = UrlArg(<<>>)
    /\ _address = None
    /\ socket = NoSocket
    /\ socks = <<>>
    /\ pending = <<>>
    /\ adapt_version = 0
    /\ pc = "idle"
    /\ call = Plain("none")
    /\ ret = Ret("pending", <<>>)
    /\ msgs = <<>>
    /\ remaining = None
    /\ ghost = NoGhost

Init ==
    /\ InitChannel
    /\ InitBeside(FALSE)
    /\ InitValidators(PyValue("list", <<>>), <<>>)

(* ------------------------------ __init__ ------------------------------- *)

\* ZMQSocketChannel.__init__ on a new object of class c with address a.
__init__(c, a) ==
    /\ chan = "new"
    /\ cls' = c
    /\ arg' = a
    /\ call' = Plain("__init__")
    /\ IF a.isTuple /\ a.port = 0
       THEN /\ chan' = "failed"
            /\ ret' = Ret("InvalidPortNumber", <<>>)
            /\ UNCHANGED _address
       ELSE /\ chan' = "ok"
            /\ ret' = Ret("ok", <<>>)
            /\ _address' = IF a.isTuple THEN FormatAddress(a.host, a.port)
                           ELSE a.url
    /\ UNCHANGED <<socket, socks, pending, adapt_version, pc, msgs, remaining,
                   ghost, hist>>
    /\ UNCHANGED <<heartbeatVars, validatorVars>>

\* The client may start a call: the object exists and no call is running.
Callable == chan = "ok" /\ pc = "idle"

(* ------------------------------- start --------------------------------- *)

\* The factory each class's start() calls, named by the role it is made for.
StartFactory(c) ==
    CASE c = "shell" -> "stdin"
      [] c = "iopub" -> "iopub"
      [] c = "stdin" -> "stdin"

NewSocket(role) == [role |-> role, state |-> "open"]

start ==
    /\ Callable
    /\ Len(socks) < MaxSockets
    /\ socks' = Append(socks, NewSocket(StartFactory(cls)))
    /\ socket' = Len(socks) + 1
    /\ pending' = <<>>
    /\ call' = Plain("start")
    /\ ret' = Ret("ok", <<>>)
    /\ ghost' = NoGhost
    /\ hist' = HistSocket(hist)
    /\ UNCHANGED <<chan, cls, arg, _address, adapt_version, pc, msgs, remaining>>
    /\ UNCHANGED <<heartbeatVars, validatorVars>>

(* ------------------------------ receiving ------------------------------ *)

\* socket.poll: the event mask, non-zero when a frame is ready.
SocketPoll(queue) == IF Len(queue) > 0 THEN 1 ELSE 0

Truthy(mask) == mask # 0

\* ZMQSocketChannel._recv: the message the oldest pending frames carry.
_recv(queue) == deserialize(feed_identities(Head(queue))[2])

\* A handler that records the reply's version without comparing it.
HandleReplyNoCompare(msg, cur) ==
    ParseInt(SplitFirst(msg.content.protocol_version, "."))

\* A handler that adapts to the first differing reply and then never again.
HandleReplyOnce(msg, cur) ==
    LET adapt == ParseInt(SplitFirst(msg.content.protocol_version, "."))
    IN  IF adapt # major_protocol_version /\ cur = 0 THEN adapt ELSE cur

\* BlockingShellChannel._handle_kernel_info_reply: the session's adapt_version
\* after the reply msg, given its value cur before.
_handle_kernel_info_reply(msg, cur) ==
    LET adapt == ParseInt(SplitFirst(msg.content.protocol_version, "."))
    IN  IF adapt # major_protocol_version THEN adapt ELSE cur

\* A base-class _recv that hands every reply to the handler.
AdaptAnyClass(c, msg, cur) ==
    IF msg.msg_type = "kernel_info_reply"
    THEN _handle_kernel_info_reply(msg, cur)
    ELSE cur

\* The session's adapt_version after class c's _recv returned msg.
AdaptAfterRecv(c, msg, cur) ==
    IF c = "shell" /\ msg.msg_type = "kernel_info_reply"
    THEN _handle_kernel_info_reply(msg, cur)
    ELSE cur

\* A receive that reads the oldest frames and leaves them on the socket.
RecvPeeks ==
    /\ pending' = pending
    /\ adapt_version' = AdaptAfterRecv(cls, _recv(pending), adapt_version)

\* self._recv() on the channel's socket: the oldest frames leave the socket.
RecvEffect ==
    /\ pending' = Tail(pending)
    /\ adapt_version' = AdaptAfterRecv(cls, _recv(pending), adapt_version)

\* A get_msg that hands the timeout to the poll whatever block says.
PollArgIgnoresBlock(block, timeout) ==
    IF timeout # None THEN Some(timeout[1] * 1000) ELSE None

\* A get_msg that polls with the seconds it was given.
PollArgSeconds(block, timeout) ==
    IF block THEN timeout ELSE Some(0)

\* The timeout get_msg hands to socket.poll.
PollArg(block, timeout) ==
    IF block
    THEN IF timeout # None THEN Some(timeout[1] * 1000) ELSE None
    ELSE Some(0)

get_msg(block, timeout) ==
    /\ Callable
    /\ call' = Call("get_msg", block, timeout,
                    IF socket = NoSocket THEN None
                    ELSE Some(PollArg(block, timeout)))
    /\ ghost' = NoGhost
    /\ IF socket = NoSocket
       THEN /\ ret' = Ret("AttributeError", <<>>)
            /\ UNCHANGED <<pending, adapt_version, pc, remaining, hist>>
       ELSE IF Truthy(SocketPoll(pending))
       THEN /\ ret' = Ret("ok", <<_recv(pending)>>)
            /\ RecvEffect
            /\ hist' = HistReturn(HistRecv(hist, _recv(pending)), ret'.val)
            /\ UNCHANGED <<pc, remaining>>
       ELSE IF PollArg(block, timeout) = Some(0)
       THEN /\ ret' = Ret("Empty", <<>>)
            /\ UNCHANGED <<pending, adapt_version, pc, remaining, hist>>
       ELSE /\ ret' = Ret("pending", <<>>)
            /\ pc' = "poll"
            /\ remaining' = PollArg(block, timeout)
            /\ UNCHANGED <<pending, adapt_version, hist>>
    /\ UNCHANGED <<chan, cls, arg, _address, socket, socks, msgs>>
    /\ UNCHANGED <<heartbeatVars, validatorVars>>

\* The poll of a blocked get_msg returns because a frame became ready.
get_msg_ready ==
    /\ pc = "poll"
    /\ Truthy(SocketPoll(pending))
    /\ ret' = Ret("ok", <<_recv(pending)>>)
    /\ RecvEffect
    /\ hist' = HistReturn(HistRecv(hist, _recv(pending)), ret'.val)
    /\ pc' = "idle"
    /\ remaining' = None
    /\ UNCHANGED <<chan, cls, arg, _address, socket, socks, call, msgs, ghost>>
    /\ UNCHANGED <<heartbeatVars, validatorVars>>

\* Time passes in a blocked get_msg with a finite timeout and nothing ready;
\* when the timeout has run out the poll returns 0 and get_msg raises Empty.
get_msg_wait ==
    /\ pc = "poll"
    /\ ~Truthy(SocketPoll(pending))
    /\ remaining # None
    /\ IF remaining[1] > TickMs
       THEN /\ remaining' = Some(remaining[1] - TickMs)
            /\ UNCHANGED <<pc, ret>>
       ELSE /\ remaining' = None
            /\ pc' = "idle"
            /\ ret' = Ret("Empty", <<>>)
    /\ UNCHANGED <<chan, cls, arg, _address, socket, socks, pending,
                   adapt_version, call, msgs, ghost, hist>>
    /\ UNCHANGED <<heartbeatVars, validatorVars>>

(* ------------------------------ get_msgs ------------------------------- *)

\* A list that takes new messages at its front.
Prepended(list, m) == <<m>> \o list

\* msgs.append(m)
Appended(list, m) == Append(list, m)

\* A get_msgs that takes every error of get_msg for the end of the drain.
get_msgs_catches_all ==
    /\ Callable
    /\ call' = Call("get_msgs", FALSE, None,
                    IF socket = NoSocket THEN None ELSE Some(Some(0)))
    /\ msgs' = <<>>
    /\ IF socket = NoSocket
       THEN /\ ret' = Ret("ok", <<>>)
            /\ ghost' = NoGhost
            /\ UNCHANGED pc
       ELSE /\ ret' = Ret("pending", <<>>)
            /\ pc' = "get_msgs"
            /\ ghost' = [snap |-> pending,
                         follows |-> call.op = "get_msgs" /\ ret.kind = "ok"
                                     /\ ghost.quiet,
                         quiet |-> TRUE]
    /\ UNCHANGED <<chan, cls, arg, _address, socket, socks, pending,
                   adapt_version, remaining, hist>>
    /\ UNCHANGED <<heartbeatVars, validatorVars>>

\* get_msgs is entered: msgs = [].  On a channel with no socket the first
\* get_msg(block=False) raises AttributeError, which get_msgs does not catch.
get_msgs ==
    /\ Callable
    /\ call' = Call("get_msgs", FALSE, None,
                    IF socket = NoSocket THEN None ELSE Some(Some(0)))
    /\ msgs' = <<>>
    /\ IF socket = NoSocket
       THEN /\ ret' = Ret("AttributeError", <<>>)
            /\ ghost' = NoGhost
            /\ UNCHANGED pc
       ELSE /\ ret' = Ret("pending", <<>>)
            /\ pc' = "get_msgs"
            /\ ghost' = [snap |-> pending,
                         follows |-> call.op = "get_msgs" /\ ret.kind = "ok"
                                     /\ ghost.quiet,
                         quiet |-> TRUE]
    /\ UNCHANGED <<chan, cls, arg, _address, socket, socks, pending,
                   adapt_version, remaining, hist>>
    /\ UNCHANGED <<heartbeatVars, validatorVars>>

\* One turn of get_msgs' loop: get_msg(block=False) either returns a message,
\* which is appended, or raises Empty, which ends the loop and returns msgs.
get_msgs_loop ==
    /\ pc = "get_msgs"
    /\ IF Truthy(SocketPoll(pending))
       THEN /\ msgs' = Appended(msgs, _recv(pending))
            /\ RecvEffect
            /\ hist' = HistRecv(hist, _recv(pending))
            /\ UNCHANGED <<pc, ret>>
       ELSE /\ ret' = Ret("ok", msgs)
            /\ hist' = HistReturn(hist, ret'.val)
            /\ pc' = "idle"
            /\ msgs' = <<>>
            /\ UNCHANGED <<pending, adapt_version>>
    /\ UNCHANGED <<chan, cls, arg, _address, socket, socks, call, remaining,
                   ghost>>
    /\ UNCHANGED <<heartbeatVars, validatorVars>>

(* ------------------------- the other operations ------------------------ *)

\* A readiness check that takes the frame it finds.
msg_ready_consuming ==
    /\ Callable
    /\ call' = Call("msg_ready", FALSE, None,
                    IF socket = NoSocket THEN None ELSE Some(Some(0)))
    /\ ret' = IF socket = NoSocket THEN Ret("AttributeError", <<>>)
              ELSE RetFlags(<<Truthy(SocketPoll(pending))>>)
    /\ pending' = IF pending = <<>> THEN pending ELSE Tail(pending)
    /\ ghost' = NoGhost
    /\ UNCHANGED <<chan, cls, arg, _address, socket, socks, adapt_version, pc,
                   msgs, remaining, hist>>
    /\ UNCHANGED <<heartbeatVars, validatorVars>>

msg_ready ==
    /\ Callable
    /\ call' = Call("msg_ready", FALSE, None,
                    IF socket = NoSocket THEN None ELSE Some(Some(0)))
    /\ ret' = IF socket = NoSocket THEN Ret("AttributeError", <<>>)
              ELSE RetFlags(<<Truthy(SocketPoll(pending))>>)
    /\ ghost' = NoGhost
    /\ UNCHANGED <<chan, cls, arg, _address, socket, socks, pending,
                   adapt_version, pc, msgs, remaining, hist>>
    /\ UNCHANGED <<heartbeatVars, validatorVars>>

\* A close that closes the socket and keeps it in the slot.
close_keeps_slot(fails) ==
    /\ Callable
    /\ call' = Plain("close")
    /\ ret' = RetFlags(<<socket # NoSocket, fails /\ socket # NoSocket>>)
    /\ ghost' = NoGhost
    /\ IF socket # NoSocket
       THEN socks' = [socks EXCEPT ![socket].state = "closed"]
       ELSE UNCHANGED socks
    /\ hist' = HistSocket(hist)
    /\ UNCHANGED <<chan, cls, arg, _address, socket, pending, adapt_version, pc,
                   msgs, remaining>>
    /\ UNCHANGED <<heartbeatVars, validatorVars>>

\* A close without the except clause: the socket's error reaches the caller
\* and the slot keeps the socket.
close_propagates(fails) ==
    /\ Callable
    /\ call' = Plain("close")
    /\ ghost' = NoGhost
    /\ hist' = HistSocket(hist)
    /\ IF socket # NoSocket /\ fails
       THEN /\ ret' = Result("ZMQError", <<>>, <<TRUE, TRUE>>, <<>>)
            /\ socks' = [socks EXCEPT ![socket].state = "closed"]
            /\ UNCHANGED <<socket, pending>>
       ELSE /\ ret' = RetFlags(<<socket # NoSocket, FALSE>>)
            /\ IF socket # NoSocket
               THEN /\ socks' = [socks EXCEPT ![socket].state = "closed"]
                    /\ socket' = NoSocket
                    /\ pending' = <<>>
               ELSE UNCHANGED <<socket, socks, pending>>
    /\ UNCHANGED <<chan, cls, arg, _address, adapt_version, pc, msgs,
                   remaining>>
    /\ UNCHANGED <<heartbeatVars, validatorVars>>

\* close(); fails says whether the socket's close(linger=0) raises, which the
\* except clause swallows.  A socket on which close was called is "closed";
\* its frames are out of the channel's reach.  The result records whether
\* the socket's close was called and whether it raised.
close(fails) ==
    /\ Callable
    /\ call' = Plain("close")
    /\ ret' = RetFlags(<<socket # NoSocket, fails /\ socket # NoSocket>>)
    /\ ghost' = NoGhost
    /\ IF socket # NoSocket
       THEN /\ socks' = [socks EXCEPT ![socket].state = "closed"]
            /\ socket' = NoSocket
            /\ pending' = <<>>
       ELSE UNCHANGED <<socket, socks, pending>>
    /\ hist' = HistSocket(hist)
    /\ UNCHANGED <<chan, cls, arg, _address, adapt_version, pc, msgs,
                   remaining>>
    /\ UNCHANGED <<heartbeatVars, validatorVars>>

\* A liveness test that asks whether a socket was ever made.
IsAliveEverStarted == socks # <<>>

\* self.socket is not None
IsAlive == socket # NoSocket

is_alive ==
    /\ Callable
    /\ call' = Plain("is_alive")
    /\ ret' = RetFlags(<<IsAlive>>)
    /\ ghost' = NoGhost
    /\ UNCHANGED <<chan, cls, arg, _address, socket, socks, pending,
                   adapt_version, pc, msgs, remaining, hist>>
    /\ UNCHANGED <<heartbeatVars, validatorVars>>

address ==
    /\ Callable
    /\ call' = Plain("address")
    /\ ret' = RetText(_address)
    /\ ghost' = NoGhost
    /\ UNCHANGED <<chan, cls, arg, _address, socket, socks, pending,
                   adapt_version, pc, msgs, remaining, hist>>
    /\ UNCHANGED <<heartbeatVars, validatorVars>>

\* _queue_send(msg): session.send(self.socket, msg).  The message leaves
\* through the socket, which session.send needs; nothing of the channel changes.
_queue_send ==
    /\ Callable
    /\ call' = Plain("_queue_send")
    /\ ret' = IF socket = NoSocket THEN Ret("Error", <<>>)
              ELSE Ret("ok", <<>>)
    /\ ghost' = NoGhost
    /\ UNCHANGED <<chan, cls, arg, _address, socket, socks, pending,
                   adapt_version, pc, msgs, remaining, hist>>
    /\ UNCHANGED <<heartbeatVars, validatorVars>>

(* ------------------------------ the kernel ----------------------------- *)

\* The kernel's message m becomes ready on the channel's socket.
Arrive(m) ==
    /\ chan = "ok"
    /\ socket # NoSocket
    /\ Len(pending) + Len(msgs) < MaxQueue
    /\ hist.on => hist.n < MaxArrivals
    /\ pending' = Append(pending, Wire(m))
    /\ hist' = HistArrive(hist, m)
    /\ ghost' = IF pc = "get_msgs" THEN [ghost EXCEPT !.quiet = FALSE,
                                                      !.snap = <<>>]
                ELSE NoGhost
    /\ UNCHANGED <<chan, cls, arg, _address, socket, socks, adapt_version, pc,
                   call, ret, msgs, remaining>>
    /\ UNCHANGED <<heartbeatVars, validatorVars>>

(* --------------------------- specifications ---------------------------- *)

\* The steps of a constructed channel, its client and the kernel.
Run ==
    \/ start
    \/ \E block \in BOOLEAN, timeout \in TimeoutArgs : get_msg(block, timeout)
    \/ get_msg_ready
    \/ get_msg_wait
    \/ get_msgs
    \/ get_msgs_loop
    \/ msg_ready
    \/ \E fails \in BOOLEAN : close(fails)
    \/ is_alive
    \/ address
    \/ _queue_send
    \/ \E m \in Messages : Arrive(m)

\* A channel of each class.  No method but the address property reads the
\* address (start only hands it to the socket factory), so one address serves.
Next ==
    \/ \E c \in Classes : __init__(c, SomeAddress)
    \/ Run

Spec == Init /\ [][Next]_vars

\* Time passes, and a poll that has a frame ready returns.
FairSpec == Spec /\ WF_vars(get_msg_wait) /\ WF_vars(get_msg_ready)

\* A channel of each address.  __init__ is the base class's in all three
\* classes and does not read the class, so one class serves.
NextAddresses ==
    \/ \E a \in AddressArgs : __init__("iopub", a)
    \/ Run

AddressSpec == Init /\ [][NextAddresses]_vars

\* The shell channel with its history kept; the kernel sends at most
\* MaxArrivals messages.  The shell channel's _recv is the base class's
\* followed by the reply handler, so this class shows every receive path.
HistInit ==
    /\ InitChannel
    /\ InitBeside(TRUE)
    /\ InitValidators(PyValue("list", <<>>), <<>>)

HistNext ==
    \/ __init__("shell", SomeAddress)
    \/ Run

HistSpec == HistInit /\ [][HistNext]_vars

(* ---------------------------- the validators --------------------------- *)

\* py3compat.string_types: str, and with it unicode where the two differ.
string_types == {"str", "unicode"}

isinstance(x, types) == x.type \in types

\* for x in lst: the first element that is not a string raises.
RECURSIVE ScanList(_)
ScanList(items) ==
    IF items = <<>> THEN "none"
    ELSE IF ~isinstance(Head(items), string_types) THEN "ValueError"
    ELSE ScanList(Tail(items))

\* A validator that takes every iterable for a list.
ValidateAnyIterable(l) == ScanList(l.items)

\* validate_string_list(lst): the exception raised, or "none".
validate_string_list(l) ==
    IF ~isinstance(l, {"list"}) THEN "ValueError"
    ELSE ScanList(l.items)

\* for k, v in iteritems(dct): the key is checked, then the value.
RECURSIVE ScanDict(_)
ScanDict(items) ==
    IF items = <<>> THEN "none"
    ELSE IF ~isinstance(Head(items)[1], string_types) THEN "ValueError"
    ELSE IF ~isinstance(Head(items)[2], string_types) THEN "ValueError"
    ELSE ScanDict(Tail(items))

\* A validator that checks the keys alone.
RECURSIVE ValidateKeysOnly(_)
ValidateKeysOnly(items) ==
    IF items = <<>> THEN "none"
    ELSE IF ~isinstance(Head(items)[1], string_types) THEN "ValueError"
    ELSE ValidateKeysOnly(Tail(items))

\* validate_string_dict(dct) for a dict: the exception raised, or "none".
validate_string_dict(d) == ScanDict(d)

\* validate_string_list(lst) is called.  It only reads its argument.
ValidateList ==
    /\ outcome' = [fn |-> "validate_string_list",
                   raised |-> validate_string_list(lst)]
    /\ UNCHANGED <<lst, dct>>
    /\ UNCHANGED <<channelVars, heartbeatVars>>

\* validate_string_dict(dct) is called.  It only reads its argument.
ValidateDict ==
    /\ outcome' = [fn |-> "validate_string_dict",
                   raised |-> validate_string_dict(dct)]
    /\ UNCHANGED <<lst, dct>>
    /\ UNCHANGED <<channelVars, heartbeatVars>>

ValidateNext == ValidateList \/ ValidateDict

\* A program that holds one argument for a validator and calls it.
ValidateInit ==
    /\ InitChannel
    /\ InitBeside(FALSE)
    /\ \/ \E l \in ListArgs : InitValidators(l, <<>>)
       \/ \E d \in DictArgs : InitValidators(PyValue("list", <<>>), d)

ValidateSpec == ValidateInit /\ [][ValidateNext]_vars

(* ------------------------ the heartbeat channel ------------------------ *)

\* A handler that does what its docstring says: it pauses the beating.
CallHandlersPauses(h, since_last_heartbeat) == [h EXCEPT !._pause = TRUE]

\* BlockingHBChannel.call_handlers: the channel h after the call.  The body
\* is pass.
call_handlers(h, since_last_heartbeat) == h

\* HBChannel._create_socket: the old socket is closed, a new one is made.
_create_socket(h) == [h EXCEPT !.socket = @ + 1]

\* The values of since_last_heartbeat a caller hands over, in milliseconds.
SinceArgs == {0, TickMs, time_to_dead * 1000}

\* The thread is started: run() makes the socket and enters its loop.
hb_start ==
    /\ ~hb._running
    /\ hb.socket = NoSocket
    /\ hb' = [_create_socket(hb) EXCEPT !._running = TRUE, !._beating = TRUE]
    /\ hbcall' = HBCall("start", "client", 0, "ok")
    /\ UNCHANGED <<channelVars, validatorVars>>

hb_pause ==
    /\ hb' = [hb EXCEPT !._pause = TRUE]
    /\ hbcall' = HBCall("pause", "client", 0, "ok")
    /\ UNCHANGED <<channelVars, validatorVars>>

hb_unpause ==
    /\ hb' = [hb EXCEPT !._pause = FALSE]
    /\ hbcall' = HBCall("unpause", "client", 0, "ok")
    /\ UNCHANGED <<channelVars, validatorVars>>

hb_stop ==
    /\ hb._running
    /\ hb' = [hb EXCEPT !._running = FALSE]
    /\ hbcall' = HBCall("stop", "client", 0, "ok")
    /\ UNCHANGED <<channelVars, validatorVars>>

\* The run loop has sent its ping and time passes without a reply.
hb_wait ==
    /\ hb._running /\ ~hb._pause
    /\ hb.waited < hb.time_to_dead * 1000
    /\ hb' = [hb EXCEPT !.waited = @ + TickMs]
    /\ hbcall' = HBCall("poll", "run", 0, "pending")
    /\ UNCHANGED <<channelVars, validatorVars>>

\* The kernel's reply is there within time_to_dead: the channel is beating.
hb_beat ==
    /\ hb._running /\ ~hb._pause
    /\ hb.waited < hb.time_to_dead * 1000
    /\ hb' = [hb EXCEPT !._beating = TRUE, !.waited = 0]
    /\ hbcall' = HBCall("poll", "run", 0, "ok")
    /\ UNCHANGED <<channelVars, validatorVars>>

\* No reply within time_to_dead: the run loop marks the channel not beating,
\* calls call_handlers with the time waited and makes a new socket.
hb_miss ==
    /\ hb._running /\ ~hb._pause
    /\ hb.waited >= hb.time_to_dead * 1000
    /\ hb.socket < MaxSockets
    /\ hb' = [_create_socket(call_handlers([hb EXCEPT !._beating = FALSE],
                                           hb.waited))
                EXCEPT !.waited = 0]
    /\ hbcall' = HBCall("call_handlers", "run", hb.waited, "ok")
    /\ UNCHANGED <<channelVars, validatorVars>>

\* call_handlers called on the channel from outside its run loop.
hb_call_handlers(since_last_heartbeat) ==
    /\ hb' = call_handlers(hb, since_last_heartbeat)
    /\ hbcall' = HBCall("call_handlers", "client", since_last_heartbeat, "ok")
    /\ UNCHANGED <<channelVars, validatorVars>>

HBNext ==
    \/ hb_start
    \/ hb_pause
    \/ hb_unpause
    \/ hb_stop
    \/ hb_wait
    \/ hb_beat
    \/ hb_miss
    \/ \E since \in SinceArgs : hb_call_handlers(since)

HBSpec == Init /\ [][HBNext]_vars

(* ------------------------- reading a behaviour ------------------------- *)

\* The message a multipart frame sequence carries: its last frame.
MsgOf(frames) == frames[Len(frames)]

\* The messages a queue of frame sequences carries, oldest first.
MsgsOf(queue) == [i \in 1..Len(queue) |-> MsgOf(queue[i])]

\* This step is the kernel's: a frame is added to the socket the channel holds.
Arrived == socket' = socket /\ Len(pending') = Len(pending) + 1

\* This step is the client calling op on the constructed channel.
Calls(op) == chan = "ok" /\ pc = "idle" /\ ~Arrived /\ call'.op = op

\* This step receives the oldest pending frames from the channel's socket.
Receives ==
    /\ socket # NoSocket
    /\ socket' = socket
    /\ pending # <<>>
    /\ pending' = Tail(pending)

\* Nothing of the socket, the slot or the session changes in this step.
SameSocketAndSession ==
    /\ pending' = pending
    /\ socket' = socket
    /\ socks' = socks
    /\ adapt_version' = adapt_version

\* The major version each protocol_version of the model stands for.
MajorOf(pv) ==
    CASE pv = <<"4", ".", "1">> -> 4
      [] pv = <<"5", ".", "0">> -> 5
      [] pv = <<"1", "2", ".", "0">> -> 12

(* ------------------------------- claims -------------------------------- *)

\* C1: a get_msgs() call on a started channel during which no message arrives
\* returns exactly the messages that were ready when it was called, in arrival
\* order (the empty list when none was), and leaves no frame ready on the
\* socket; if it follows at once (no arrival in between) a get_msgs() that
\* itself saw no arrival, it returns the empty list.
C1_GetMsgsDrainsInOrder ==
    [][(pc = "get_msgs" /\ pc' = "idle" /\ ghost.quiet)
        => /\ ret' = Ret("ok", MsgsOf(ghost.snap))
           /\ pending' = <<>>
           /\ (ghost.follows => ret'.val = <<>>)]_vars

\* C1 witness: a drain without arrivals has returned two different messages.
C1_Witness ==
    /\ pc = "idle"
    /\ call.op = "get_msgs"
    /\ ret.kind = "ok"
    /\ ghost.quiet
    /\ Len(ret.val) = 2
    /\ ret.val[1] # ret.val[2]
    /\ ret.val = MsgsOf(ghost.snap)

\* C2: get_msg(block=False) on a started channel with no ready frame polls
\* with timeout 0 whatever its timeout argument, raises Empty in the same step
\* (it never waits), and leaves the pending frames, the slot, the sockets and
\* the session unchanged.
C2_NonBlockingEmpty ==
    [][(Calls("get_msg") /\ ~call'.block /\ socket # NoSocket /\ pending = <<>>)
        => /\ call'.poll = Some(Some(0))
           /\ ret' = Ret("Empty", <<>>)
           /\ pc' = "idle"
           /\ SameSocketAndSession]_vars

\* C2 witness: a non-blocking get_msg given a timeout of one second raised Empty.
C2_Witness ==
    /\ call.op = "get_msg"
    /\ ~call.block
    /\ call.timeout = Some(1)
    /\ ret.kind = "Empty"
    /\ pc = "idle"

\* C3: on a started channel msg_ready() returns true exactly when a frame is
\* ready, which is exactly when get_msg(block=False) in that state returns a
\* message instead of raising Empty, and it consumes nothing: the pending
\* frames, the slot, the sockets and the session are as before the call.
C3_MsgReadyPure ==
    [][/\ (Calls("msg_ready") /\ socket # NoSocket)
            => /\ ret' = RetFlags(<<pending # <<>>>>)
               /\ pc' = "idle"
               /\ SameSocketAndSession
       /\ (Calls("get_msg") /\ ~call'.block /\ socket # NoSocket)
            => /\ (pending # <<>>) <=> (ret'.kind = "ok")
               /\ (pending = <<>>) <=> (ret'.kind = "Empty")]_vars

\* C3 witness: msg_ready has answered true and the frame is still pending.
C3_Witness ==
    /\ call.op = "msg_ready"
    /\ ret = RetFlags(<<TRUE>>)
    /\ Len(pending) = MaxQueue

\* C4: every receive on the shell channel of a kernel_info_reply with major
\* version M sets session.adapt_version to M if M differs from
\* major_protocol_version and leaves it as it was if M equals it; the message
\* reaches the caller unmodified (returned by get_msg, appended by get_msgs).
C4_ShellAdaptsOnReply ==
    [][(Receives /\ cls = "shell"
            /\ MsgOf(Head(pending)).msg_type = "kernel_info_reply")
        => LET m == MsgOf(Head(pending))
               M == MajorOf(m.content.protocol_version)
           IN  /\ (M # major_protocol_version => adapt_version' = M)
               /\ (M = major_protocol_version => adapt_version' = adapt_version)
               /\ (pc' = "idle" => ret' = Ret("ok", <<m>>))
               /\ (pc' = "get_msgs" => msgs' = Append(msgs, m))]_vars

\* C4 witness: the shell channel, adapted to version 12 earlier, has received
\* a reply for version 5.0 and is still adapted to 12.
C4_Witness ==
    /\ cls = "shell"
    /\ call.op = "get_msg"
    /\ ret = Ret("ok", <<KernelInfoReply(<<"5", ".", "0">>)>>)
    /\ adapt_version = 12

\* C5: close() never raises and is idempotent: from any state of the channel
\* it returns normally with the slot empty, after it is_alive() is false, and
\* a close() of a channel whose slot is already empty calls nothing on any
\* socket and changes no state.
C5_CloseIdempotent ==
    [][/\ Calls("close")
            => /\ ret'.kind = "ok"
               /\ pc' = "idle"
               /\ socket' = NoSocket
               /\ (socket = NoSocket
                     => /\ ret'.flags = <<FALSE, FALSE>>
                        /\ UNCHANGED <<chan, cls, arg, _address, socket, socks,
                                       pending, adapt_version, msgs, remaining>>)
       /\ (Calls("is_alive") /\ call.op = "close") => ret'.flags = <<FALSE>>]_vars

\* C5 witness: close() was called on a channel already closed; the only
\* socket is closed and the call touched no socket.
C5_Witness ==
    /\ call.op = "close"
    /\ ret = RetFlags(<<FALSE, FALSE>>)
    /\ socket = NoSocket
    /\ Len(socks) = 1
    /\ socks[1].state = "closed"

\* The port a URL names: the number written after its last colon.
PortOf(url) ==
    LET last == CHOOSE i \in 1..Len(url) :
                    /\ url[i] = ":"
                    /\ \A j \in (i + 1)..Len(url) : url[j] # ":"
    IN  ParseInt(SubSeq(url, last + 1, Len(url)))

\* url reads "tcp://", host, ":", then port in decimal without leading zeros.
IsTcpUrl(url, host, port) ==
    LET pre == TcpScheme \o host \o <<":">>
        digits == SubSeq(url, Len(pre) + 1, Len(url))
    IN  /\ Len(url) > Len(pre)
        /\ SubSeq(url, 1, Len(pre)) = pre
        /\ \A i \in 1..Len(digits) : IsDigit(digits[i])
        /\ (Len(digits) > 1 => digits[1] # "0")
        /\ ParseInt(digits) = port

\* url is the address a channel constructed from given must have.
AddressIs(url, given) ==
    IF given.isTuple THEN IsTcpUrl(url, given.host, given.port)
    ELSE url = given.url

\* C6: no channel exists whose address has port 0: every construction with a
\* port of 0, given as a pair or inside a URL, for any host, fails with
\* InvalidPortNumber.
C6_NoChannelOnPortZero ==
    /\ chan = "ok" => PortOf(_address) # 0
    /\ (chan = "failed" => ret.kind = "InvalidPortNumber")

\* C7: construction from a (host, port) pair with port # 0 succeeds and gives
\* the address tcp://host:port, construction from a URL gives that URL, and no
\* later step changes the address: the address property returns that value
\* after any sequence of calls.
C7_AddressFixedAtConstruction ==
    [][/\ (chan' = "failed" => arg'.isTuple /\ arg'.port = 0)
       /\ (chan' = "ok" => AddressIs(_address', arg'))
       /\ (chan = "ok" => _address' = _address /\ arg' = arg /\ chan' = "ok")
       /\ Calls("address")
            => /\ ret'.kind = "ok"
               /\ AddressIs(ret'.text, arg)]_vars

\* C7 witness: after a start and a close, address returned tcp://b.c:80 on a
\* channel constructed from the pair (b.c, 80).
C7_Witness ==
    /\ arg = TupleArg(<<"b", ".", "c">>, 80)
    /\ cls = "iopub"
    /\ call.op = "address"
    /\ ret = RetText(TcpScheme \o <<"b", ".", "c", ":", "8", "0">>)
    /\ socket = NoSocket
    /\ Len(socks) = 1

\* C8: the socket a channel holds was made by the factory of the channel's
\* own role: shell by the shell factory, iopub by the iopub factory, stdin by
\* the stdin factory.
C8_SocketOfOwnRole ==
    socket # NoSocket => socks[socket].role = cls

\* C9: is_alive() is true iff the slot holds a socket, whatever the kernel
\* does: false after construction, true after start(), false after close(),
\* true after a start() that follows a close(), and unchanged by every step of
\* get_msg, get_msgs, msg_ready and _queue_send and by every arrival.
C9_AliveIffSocket ==
    [][/\ Calls("is_alive")
            => ret' = RetFlags(<<socket # NoSocket>>) /\ socket' = socket
       /\ (chan = "new" /\ chan' = "ok") => ~IsAlive'
       /\ Calls("start") => IsAlive'
       /\ Calls("close") => ~IsAlive'
       /\ call'.op \in {"get_msg", "get_msgs", "msg_ready", "_queue_send"}
            => IsAlive' = IsAlive
       /\ Arrived => IsAlive' = IsAlive]_vars

\* C9 witness: is_alive() answered true on a channel started again after a
\* close.
C9_Witness ==
    /\ call.op = "is_alive"
    /\ ret = RetFlags(<<TRUE>>)
    /\ Len(socks) = 2
    /\ socks[1].state = "closed"
    /\ socket = 2

\* C10: get_msg(block=True, timeout=t) on a started channel polls with
\* t * 1000 ms (with None for None).  It returns the oldest pending message
\* when one is ready, at once or while it waits; with a finite t it raises
\* Empty once the time has run out with nothing ready (at once for t = 0) and
\* so always ends; with None it never raises Empty, ends only by returning a
\* message, and does end once a message is ready.
C10_BlockingGetMsg ==
    /\ [][(Calls("get_msg") /\ call'.block /\ socket # NoSocket)
            => /\ call'.poll = Some(IF call'.timeout = None THEN None
                                    ELSE Some(call'.timeout[1] * 1000))
               /\ pending # <<>>
                    => /\ pc' = "idle"
                       /\ ret' = Ret("ok", <<MsgOf(Head(pending))>>)
                       /\ pending' = Tail(pending)
               /\ (pending = <<>> /\ call'.timeout = Some(0))
                    => pc' = "idle" /\ ret' = Ret("Empty", <<>>)
               /\ (pending = <<>> /\ call'.timeout # Some(0))
                    => pc' = "poll" /\ remaining' = call'.poll[1]]_vars
    /\ [][(pc = "poll" /\ pc' = "idle")
            => \/ /\ pending # <<>>
                  /\ ret' = Ret("ok", <<MsgOf(Head(pending))>>)
                  /\ pending' = Tail(pending)
               \/ /\ pending = <<>>
                  /\ call.timeout # None
                  /\ remaining # None
                  /\ remaining[1] <= TickMs
                  /\ ret' = Ret("Empty", <<>>)]_vars
    /\ [][(pc = "poll" /\ pc' = "poll" /\ remaining' # remaining)
            => /\ pending = <<>>
               /\ remaining'[1] = remaining[1] - TickMs]_vars
    /\ (pc = "poll" /\ call.timeout # None) ~> (pc = "idle")
    /\ (pc = "poll" /\ pending # <<>>) ~> (pc = "idle")

\* C10 witness: a blocking get_msg with the longest finite timeout waited it
\* out and raised Empty.
C10_Witness ==
    /\ call.op = "get_msg"
    /\ call.block
    /\ call.timeout = Some(MaxTimeout)
    /\ call.poll = Some(Some(MaxTimeout * 1000))
    /\ ret = Ret("Empty", <<>>)
    /\ pc = "idle"


AllStrings(items) == \A i \in 1..Len(items) : items[i].type \in string_types

AllStringItems(items) ==
    \A i \in 1..Len(items) : /\ items[i][1].type \in string_types
                             /\ items[i][2].type \in string_types

RECURSIVE LastDiffering(_, _)
LastDiffering(received, initial) ==
    IF received = <<>> THEN initial
    ELSE LET m == received[Len(received)]
         IN  IF /\ m.msg_type = "kernel_info_reply"
                /\ MajorOf(m.content.protocol_version) # major_protocol_version
             THEN MajorOf(m.content.protocol_version)
             ELSE LastDiffering(SubSeq(received, 1, Len(received) - 1),
                                initial)

\* C14: after any sequence of messages received on the shell channel,
\* session.adapt_version is the major version of the most recently received
\* kernel_info_reply whose major version differs from
\* major_protocol_version, or its initial value 0 if there was none.  So a
\* repeated differing version changes nothing and a later reply of the
\* current major version neither clears nor overwrites what was recorded.
C14_AdaptsToLastDiffering ==
    (hist.on /\ cls \in {"none", "shell"})
        => adapt_version = LastDiffering(hist.received, 0)

\* C14 witness: the shell channel received a reply for version 12.0 and then
\* one for 4.1; the session is adapted to 4.
C14_Witness ==
    /\ cls = "shell"
    /\ hist.received = <<KernelInfoReply(<<"1", "2", ".", "0">>),
                         KernelInfoReply(<<"4", ".", "1">>)>>
    /\ adapt_version = 4

\* C15: session.adapt_version changes only when the shell channel receives a
\* kernel_info_reply.  A receive on the iopub or stdin channel (of a
\* kernel_info_reply too), a receive on the shell channel of any other
\* msg_type, and every msg_ready, close, start and get_msg that raises Empty
\* leave it unchanged; what the iopub and stdin channels receive reaches the
\* caller as deserialized.
C15_AdaptOnlyOnShellReply ==
    [][/\ adapt_version' # adapt_version
            => /\ Receives
               /\ cls = "shell"
               /\ MsgOf(Head(pending)).msg_type = "kernel_info_reply"
       /\ (Receives /\ cls \in {"iopub", "stdin"})
            => /\ adapt_version' = adapt_version
               /\ pc' = "idle" => ret' = Ret("ok", <<MsgOf(Head(pending))>>)
               /\ pc' = "get_msgs" => msgs' = Append(msgs, MsgOf(Head(pending)))
       /\ (Receives /\ cls = "shell"
              /\ MsgOf(Head(pending)).msg_type # "kernel_info_reply")
            => adapt_version' = adapt_version
       /\ (Calls("msg_ready") \/ Calls("close") \/ Calls("start"))
            => adapt_version' = adapt_version
       /\ (ret'.kind = "Empty" /\ (Calls("get_msg") \/ pc = "poll"))
            => adapt_version' = adapt_version]_vars

\* C15 witness: the iopub channel has received a kernel_info_reply for
\* version 4.1, returned it, and the session is not adapted.
C15_Witness ==
    /\ cls = "iopub"
    /\ call.op = "get_msg"
    /\ ret = Ret("ok", <<KernelInfoReply(<<"4", ".", "1">>)>>)
    /\ adapt_version = 0

\* C16: when the socket's close(linger=0) raises, close() still returns
\* normally, the error does not reach the caller, and the channel is left
\* exactly as by a close that succeeded: the slot is empty, is_alive() is
\* false, close was called on the socket, and nothing else has changed.
C16_CloseErrorSuppressed ==
    [][/\ (Calls("close") /\ ret'.flags[2])
            => /\ ret'.kind = "ok"
               /\ pc' = "idle"
               /\ socket # NoSocket
               /\ socket' = NoSocket
               /\ ~(socket' # NoSocket)
               /\ socks' = [socks EXCEPT ![socket].state = "closed"]
               /\ pending' = <<>>
               /\ UNCHANGED <<chan, cls, arg, _address, adapt_version, msgs,
                              remaining>>
       /\ (Calls("is_alive") /\ call.op = "close" /\ ret.flags[2])
            => ret' = RetFlags(<<FALSE>>)]_vars

\* C16 witness: the socket's close raised inside close(); the call returned
\* normally and the slot is empty.
C16_Witness ==
    /\ call.op = "close"
    /\ ret = RetFlags(<<TRUE, TRUE>>)
    /\ socket = NoSocket
    /\ socks[Len(socks)].state = "closed"

\* C17: a channel's socket is created on start and destroyed on close: when
\* close() has returned, close(linger=0) has been called on every socket
\* that a start() of this channel created, whatever the sequence of start
\* and close calls was, two start() calls in a row included.
C17_CloseDestroysEverySocket ==
    [][Calls("close")
         => \A i \in 1..Len(socks') : socks'[i].state = "closed"]_vars

\* C18: a channel whose slot is empty, closed or never started, can be
\* queried but not used to receive: is_alive() and address return normally;
\* get_msg, blocking or not, get_msgs and msg_ready return neither a message
\* nor a readiness value and do not raise Empty, each ends at once with
\* another error, which get_msgs lets through instead of returning a list.
C18_EmptySlotQueriedNotUsed ==
    [][socket = NoSocket
         => /\ Calls("is_alive") => ret' = RetFlags(<<FALSE>>)
            /\ Calls("address") => ret' = RetText(_address)
            /\ \A op \in {"get_msg", "get_msgs", "msg_ready"} :
                 Calls(op) => /\ ret'.kind \notin {"ok", "Empty", "pending"}
                              /\ ret'.val = <<>>
                              /\ ret'.flags = <<>>
                              /\ pc' = "idle"
                              /\ msgs' = <<>>
                              /\ SameSocketAndSession]_vars

\* C18 witness: get_msgs() on a closed channel ended with AttributeError.
C18_Witness ==
    /\ socks # <<>>
    /\ socket = NoSocket
    /\ call.op = "get_msgs"
    /\ ret = Ret("AttributeError", <<>>)

\* s is an initial part of t.
IsPrefix(s, t) == Len(s) <= Len(t) /\ s = SubSeq(t, 1, Len(s))

\* C19: with the kernel putting messages on the socket of a started channel
\* while the client calls get_msg, get_msgs and msg_ready, each arrived
\* message is delivered at most once and in arrival order: the messages
\* returned so far are an initial part of those that arrived, and returned
\* messages, those a running get_msgs holds and those pending on the socket
\* are together the arrivals, so between calls returned and pending
\* messages are.  A get_msgs ends with the first poll that finds nothing.
C19_EachMessageOnceInOrder ==
    /\ [](hist.on
            => /\ IsPrefix(hist.returned, hist.arrived)
               /\ hist.returned \o msgs \o MsgsOf(pending) = hist.arrived
               /\ pc = "idle"
                    => hist.returned \o MsgsOf(pending) = hist.arrived)
    /\ [][(pc = "get_msgs" /\ pending = <<>> /\ ~Arrived)
            => /\ pc' = "idle"
               /\ ret' = Ret("ok", msgs)]_vars

\* C19 witness: a get_msgs during which a message arrived has returned both
\* messages that arrived on the socket, in their order.
C19_Witness ==
    /\ hist.on
    /\ pc = "idle"
    /\ call.op = "get_msgs"
    /\ ~ghost.quiet
    /\ ret = Ret("ok", <<StatusMsg, KernelInfoReply(<<"4", ".", "1">>)>>)
    /\ hist.arrived = ret.val
    /\ hist.returned = ret.val
=============================================================================
